---- MODULE Spec2Model ----
(***************************************************************************)
(* SrwDecoder::decodeCompressed3 (Samsung SRW, compression 32773) as a     *)
(* state machine.  One action per stage of the function: the header read,  *)
(* the dimension check, the start of a row, and for each 16-pixel block    *)
(* the scale update, the motion code, the reference pixels, the residual   *)
(* widths and the residuals, then the end of the row.                      *)
(*                                                                         *)
(* The bit pump (BitPumpMSB32) and clampBits are defined outside           *)
(* SrwDecoder.cpp.  A read of n bits advances the pump by n bits and       *)
(* yields a value of n bits; the value is drawn when it is read, from the  *)
(* set the stream profile allows, so two pumps constructed over the same   *)
(* byte draw its bits independently.  An out-of-row dereference yields an  *)
(* arbitrary 16-bit word, one per block.                                   *)
(***************************************************************************)
EXTENDS Integers, Sequences, FiniteSets

VARIABLES
  profile,       \* the class of streams explored (fixes the input sets)
  pc,            \* position in decodeCompressed3
  err,           \* which ThrowRDE ended the decode ("none" while running)
  bits,          \* the dispatcher's bits argument
  bitDepth, width, height, optflags, initVal,   \* header fields
  dim,           \* mRaw->dim; <<0, 0>> before it is set
  img,           \* the raster of mRaw, img[row][col]; <<>> before createData
  img2,          \* the raster of a second decode of the same stream with one
                 \* residual bit flipped (equal to img until the flip)
  flip,          \* armed: whether the second decode is still to flip a bit;
                 \* at: the place <<row, col, i, bit>> of the flip, once made
  line_offset,   \* byte offset of the row data, relative to the payload
  pumpBase,      \* line_offset the current row's pump was constructed at
  bitsRead,      \* bits consumed from the pump last constructed
  row, col, motion, scale, diffBitsMode,
  diffBits,      \* diffBits of the block last decoded in this row
  flags,         \* the four 2-bit width flags last read in this row
  rd,            \* what the last stage read from the pump: <<nbits, value>>*
  refs,          \* <<row, column>> of every pixel of rows above dereferenced
                 \* by the last reference stage
  wrote          \* columns of row `row` written by the last stage

vars == <<profile, pc, err, bits, bitDepth, width, height, optflags, initVal,
          dim, img, img2, flip, line_offset, pumpBase, bitsRead,
          row, col, motion, scale, diffBitsMode, diffBits, flags, rd, refs,
          wrote>>

----------------------------------------------------------------------------
(* Bounds of the exploration *)

\* rows of the largest raster that is decoded
MaxRows == 3
\* 16-pixel blocks per row of the widest raster that is decoded
MaxBlocks == 5

(* Program constants *)
OPT_SKIP == 1
OPT_MV == 2
OPT_QP == 4
MaxWidth == 6496
MaxHeight == 4336
BlockSize == 16
HeaderBits == 128
\* a cell of the raster that createData allocated and nothing wrote yet
Unwritten == -1

Pow2(n) == 2 ^ n
\* A uint32 is held as the int32 with the same 32 bits: 0 - 1 is the word
\* 0xFFFFFFFF, held as -1.  Sums and differences are then the integers';
\* the unsigned order is not.
Add32(a, b) == a + b
Sub32(a, b) == a - b
UGt32(a, b) == IF (a < 0) = (b < 0) THEN a > b ELSE a < 0
Max(a, b) == IF a > b THEN a ELSE b
Min(a, b) == IF a < b THEN a ELSE b

\* optflags & f, for a one-bit mask f
HasOpt(o, f) == (o \div f) % 2 = 1

----------------------------------------------------------------------------
(* Stream profiles: the header values and pump values explored *)

Profiles == {"hdr", "pix", "wid", "scl"}

\* <<width, height>> pairs
DimsIn(p) ==
  CASE p = "hdr" -> {0, 8, 16, MaxWidth, MaxWidth + 16} \X {0, 1, MaxHeight, MaxHeight + 1}
    [] p = "pix" -> {<<16, 3>>, <<32, 1>>}
    [] p = "wid" -> {<<32, MaxRows>>}
    [] p = "scl" -> {<<16 * MaxBlocks, 2>>}
    [] p = "pair" -> {<<32, 2>>, <<16, 3>>}

\* the 4-bit bitDepth field (bitDepth - 1)
DepthIn(p) == IF p = "wid" THEN {5, 11} ELSE {11}

OptIn(p) ==
  CASE p = "hdr" -> {0}
    [] p = "pix" -> {0, OPT_SKIP + OPT_MV + OPT_QP}
    [] p = "wid" -> {OPT_QP}
    [] p = "scl" -> {0, OPT_QP}
    [] p = "pair" -> {0}

\* <<bits, initVal>>
SeedIn(p) ==
  IF p = "pix" THEN {<<12, 16383>>, <<14, 0>>} ELSE {<<12, 1000>>}

\* 2-bit scale codes and 12-bit scale escapes
ScaleCodeIn(p) == IF p = "scl" THEN 0..3 ELSE IF p = "pix" THEN {0, 3} ELSE {0}
ScaleEscIn(p) == IF p = "scl" THEN {0, 7, 4095} ELSE {4095}

\* first motion bit, and the 3-bit code that follows a 0
MotionBitIn(p) == IF p = "scl" THEN {1} ELSE {0, 1}
MotionCodeIn(p) == IF p \in {"pix", "pair"} THEN 0..7 ELSE {3, 7}

\* the residual-width header bit (read when OPT_SKIP is unset)
WidthBitIn(p) == IF p \in {"hdr", "scl"} THEN {1} ELSE {0, 1}

\* the four 2-bit width flags of a block, and the 4-bit escapes
FlagsIn(p) ==
  CASE p \in {"pix", "pair"} -> {[i \in 0..3 |-> 3]}
    [] p = "wid" -> {[i \in 0..3 |-> IF i \in {0, 3} THEN a ELSE b] : a, b \in 0..3}
                    \cup {[i \in 0..3 |-> CASE i = 0 -> 0 [] i = 1 -> 1 [] i = 2 -> 2 [] i = 3 -> 0]}
    [] OTHER -> {[i \in 0..3 |-> 0]}
EscIn(p) == IF p = "wid" THEN {0, 15} ELSE {2}

\* the residual bits of a block: every residual all zeros, all ones, the
\* largest positive or the most negative value of its width
ResidIn(p) == IF p = "pix" THEN {"ones", "max"} ELSE {"zero"}

\* what an out-of-bounds dereference may yield (any 16-bit word)
OobVals == {0, 65535}

\* the second decode's flipped residual: index i of the block and bit number
FlipIdx == {0, 7, 15}
FlipBit == {0, 1}

----------------------------------------------------------------------------
(* Helpers of the decoder *)

\* BitPump::getBufferPosition: byte offset of the next bit to be read,
\* rounded down
getBufferPosition(nbits) == nbits \div 8

\* clampBits(v, n) = min(max(v, 0), (1 << n) - 1)
clampBits(v, n) == Min(Max(v, 0), Pow2(n) - 1)

\* lines 159-160
BadDimensionsAtCap(w, h) ==
  w = 0 \/ h = 0 \/ w % 16 # 0 \/ w >= MaxWidth \/ h >= MaxHeight
BadDimensions(w, h) ==
  w = 0 \/ h = 0 \/ w % 16 # 0 \/ w > MaxWidth \/ h > MaxHeight

\* lines 176-177
AlignLine(off) == IF off % 16 # 0 THEN off + (16 - (off % 16)) ELSE off

\* line 190
InitialMode(r) == IF r = 0 \/ r = 1 THEN 7 ELSE 4

\* line 195, 197: the new scale for code i (e is the 12-bit escape)
ScaleUpdateAdds(s, i, e) ==
  IF i < 3 THEN s + (CASE i = 0 -> 0 [] i = 1 -> -2 [] i = 2 -> 2) ELSE s + e
ScaleUpdate(s, i, e) ==
  IF i < 3 THEN s + (CASE i = 0 -> 0 [] i = 1 -> -2 [] i = 2 -> 2) ELSE e

\* line 194: whether this block reads a scale code
ReadsScale(o, c) == ~HasOpt(o, OPT_QP) /\ c % 64 = 0

\* lines 201-204: the motion code from the first bit b and the 3-bit code m
MotionUpdate(o, old, b, m) ==
  IF HasOpt(o, OPT_MV) THEN (IF b = 1 THEN 3 ELSE 7)
  ELSE IF b = 0 THEN m ELSE old

\* line 205
MotionAtStartRow0(r, m) == r = 0 /\ m # 7
MotionAtStart(r, m) == (r = 0 \/ r = 1) /\ m # 7

\* lines 217-218
motionOffset(m) ==
  CASE m = 0 -> -4 [] m = 1 -> -2 [] m = 2 -> -2 [] m = 3 -> 0
    [] m = 4 -> 0 [] m = 5 -> 2 [] m = 6 -> 4
motionDoAverage(m) == m = 2 \/ m = 4

\* line 246
colornum(r, i) == IF r % 2 # 0 THEN i \div 2 ELSE ((i \div 2) + 2) % 3

\* line 266
TooManyBitsLoose(d, depth) == UGt32(d, Add32(depth, 2))
TooManyBits(d, depth) == UGt32(d, Add32(depth, 1))

\* lines 282-285: the pixel of the block residual i applies to
WritePosEvenOnly(r, i) == (i % 8) * 2
WritePos(r, i) ==
  IF r % 2 # 0 THEN ((i % 8) * 2) + 1 - (i \div 8) ELSE ((i % 8) * 2) + (i \div 8)

\* lines 277-278: the signed value of len raw bits
SignExtend(raw, len) ==
  IF len # 0 /\ (raw \div Pow2(len - 1)) # 0 THEN raw - Pow2(len) ELSE raw

\* line 239: diffBits of a new block (prev: the block before)
KeepDiffBits(prev) == prev
NewDiffBits(prev) == [i \in 0..3 |-> 0]

----------------------------------------------------------------------------
Init ==
  /\ profile \in Profiles
  /\ flip = [armed |-> FALSE, at |-> <<>>]
  /\ pc = "header" /\ err = "none"
  /\ bits = 0 /\ bitDepth = 0 /\ width = 0 /\ height = 0
  /\ optflags = 0 /\ initVal = 0
  /\ dim = <<0, 0>> /\ img = <<>> /\ img2 = <<>>
  /\ line_offset = 0 /\ pumpBase = 0 /\ bitsRead = 0
  /\ row = 0 /\ col = 0 /\ motion = 0 /\ scale = 0
  /\ diffBitsMode = [c \in 0..2 |-> [k \in 0..1 |-> 0]]
  /\ diffBits = [i \in 0..3 |-> 0]
  /\ flags = [i \in 0..3 |-> 0]
  /\ rd = <<>> /\ refs = {} /\ wrote = {}

\* lines 130-157 and 173: the header fields, read by startpump
Header ==
  /\ pc = "header"
  /\ \E d \in DimsIn(profile), dep \in DepthIn(profile),
        o \in OptIn(profile), s \in SeedIn(profile) :
       /\ rd' = << <<16, 0>>, <<4, 0>>, <<4, dep>>, <<4, 0>>, <<4, 0>>,
                   <<16, d[1]>>, <<16, d[2]>>, <<16, 0>>, <<4, 0>>, <<4, o>>,
                   <<8, 0>>, <<8, 0>>, <<8, 0>>, <<2, 0>>, <<14, s[2]>> >>
       /\ bitDepth' = dep + 1
       /\ width' = d[1] /\ height' = d[2]
       /\ optflags' = o
       /\ bits' = s[1] /\ initVal' = s[2]
  /\ bitsRead' = HeaderBits
  /\ pc' = "dims"
  /\ UNCHANGED <<profile, err, dim, img, img2, flip, line_offset, pumpBase,
                 row, col, motion, scale, diffBitsMode, diffBits,
                 flags, refs, wrote>>

\* whether the raster is small enough for its rows to be explored
Explored(w, h) == w <= BlockSize * MaxBlocks /\ h <= MaxRows

\* mRaw->createData(): a raster of unwritten cells
createData(w, h) ==
  IF Explored(w, h) THEN [r \in 0..(h - 1) |-> [c \in 0..(w - 1) |-> Unwritten]]
  ELSE <<>>

\* lines 159-164 and 173
CheckDims ==
  /\ pc = "dims"
  /\ IF BadDimensions(width, height)
     THEN /\ pc' = "error" /\ err' = "dimensions"
          /\ UNCHANGED <<dim, img, img2, line_offset>>
     ELSE /\ pc' = "row" /\ err' = err
          /\ dim' = <<width, height>>
          /\ img' = createData(width, height)
          /\ img2' = createData(width, height)
          /\ line_offset' = getBufferPosition(bitsRead)
  /\ rd' = <<>>
  /\ UNCHANGED <<profile, bits, bitDepth, width, height, optflags, initVal,
                 flip, pumpBase, bitsRead, row, col, motion, scale,
                 diffBitsMode, diffBits, flags, refs, wrote>>

\* lines 174-190: align the offset, construct the row's pump, reset the
\* line state
RowStart ==
  /\ pc = "row"
  /\ Explored(width, height)
  /\ row < height
  /\ line_offset' = AlignLine(line_offset)
  /\ pumpBase' = AlignLine(line_offset)
  /\ bitsRead' = 0
  /\ motion' = 7
  /\ scale' = 0
  /\ diffBitsMode' = [c \in 0..2 |-> [k \in 0..1 |-> InitialMode(row)]]
  /\ col' = 0
  /\ diffBits' = [i \in 0..3 |-> 0]
  /\ flags' = [i \in 0..3 |-> 0]
  /\ refs' = {} /\ wrote' = {}
  /\ pc' = "scale"
  /\ rd' = <<>>
  /\ UNCHANGED <<profile, err, bits, bitDepth, width, height, optflags,
                 initVal, dim, img, img2, flip, row>>

\* lines 194-198
Scale ==
  /\ pc = "scale"
  /\ IF ReadsScale(optflags, col)
     THEN \E i \in ScaleCodeIn(profile) :
            IF i < 3
            THEN /\ scale' = ScaleUpdate(scale, i, 0)
                 /\ rd' = << <<2, i>> >>
                 /\ bitsRead' = bitsRead + 2
            ELSE \E e \in ScaleEscIn(profile) :
                   /\ scale' = ScaleUpdate(scale, i, e)
                   /\ rd' = << <<2, i>>, <<12, e>> >>
                   /\ bitsRead' = bitsRead + 14
     ELSE /\ rd' = <<>>
          /\ UNCHANGED <<scale, bitsRead>>
  /\ pc' = "motion"
  /\ UNCHANGED <<profile, err, bits, bitDepth, width, height, optflags,
                 initVal, dim, img, img2, flip, line_offset, pumpBase, row, col, motion, diffBitsMode, diffBits, flags, refs, wrote>>

\* lines 201-206
Motion ==
  /\ pc = "motion"
  /\ \E b \in MotionBitIn(profile) :
       IF HasOpt(optflags, OPT_MV) \/ b = 1
       THEN /\ motion' = MotionUpdate(optflags, motion, b, 0)
            /\ rd' = << <<1, b>> >>
            /\ bitsRead' = bitsRead + 1
       ELSE \E m \in MotionCodeIn(profile) :
              /\ motion' = MotionUpdate(optflags, motion, b, m)
              /\ rd' = << <<1, b>>, <<3, m>> >>
              /\ bitsRead' = bitsRead + 4
  /\ IF MotionAtStart(row, motion')
     THEN pc' = "error" /\ err' = "motion"
     ELSE pc' = "ref" /\ err' = err
  /\ UNCHANGED <<profile, bits, bitDepth, width, height, optflags, initVal,
                 dim, img, img2, flip, line_offset, pumpBase, row,
                 col, scale, diffBitsMode, diffBits, flags, refs, wrote>>

\* line 180: the row of the raster that img points into while row r is decoded
ImgRowStuck(r) == 0
ImgRow(r) == r

\* line 211: the block takes the pixels two to the left on the same row, or
\* initVal at the left edge
RECURSIVE CopyLeft(_, _, _, _)
CopyLeft(line, c, seed, i) ==
  IF i = 16 THEN line
  ELSE CopyLeft([line EXCEPT ![c + i] = IF c = 0 THEN seed ELSE line[c + i - 2]],
                c, seed, i + 1)

\* lines 225-228: row and column of refpixel for pixel i of the block
RefRow(r, i) == IF (r + i) % 2 = 1 THEN Max(0, r - 2) ELSE Max(0, r - 1)
RefCol(r, c, m, i) ==
  IF (r + i) % 2 = 1 THEN c + i + motionOffset(m)
  ELSE c + i + motionOffset(m) + (IF i % 2 # 0 THEN -1 ELSE 1)

\* *refpixel for column k of row rr: the pixel, or whatever lies outside the
\* row (g) when k is not a column of it
Deref(raster, rr, k, g) ==
  IF k \in 0..(width - 1) THEN raster[rr][k] ELSE g

\* lines 231-234
RefValue(raster, r, c, m, i, g) ==
  IF motionDoAverage(m)
  THEN (Deref(raster, RefRow(r, i), RefCol(r, c, m, i), g)
        + Deref(raster, RefRow(r, i), RefCol(r, c, m, i) + 2, g) + 1) \div 2
  ELSE Deref(raster, RefRow(r, i), RefCol(r, c, m, i), g)

\* lines 207-236: row r of the raster after the reference stage
RefLine(raster, r, c, m, g) ==
  IF m = 7 THEN CopyLeft(raster[ImgRow(r)], c, initVal, 0)
  ELSE [x \in 0..(width - 1) |->
          IF x \in c..(c + 15) THEN RefValue(raster, r, c, m, x - c, g)
          ELSE raster[ImgRow(r)][x]]

\* the pixels of the rows above that lines 226-232 dereference
RefReads(r, c, m) ==
  IF m = 7 THEN {}
  ELSE {<<RefRow(r, i), RefCol(r, c, m, i)>> : i \in 0..15}
       \cup (IF motionDoAverage(m)
             THEN {<<RefRow(r, i), RefCol(r, c, m, i) + 2>> : i \in 0..15}
             ELSE {})

\* lines 207-236
Reference ==
  /\ pc = "ref"
  /\ IF motion # 7 /\ row < 2
     THEN /\ pc' = "error" /\ err' = "lookup"
          /\ UNCHANGED <<img, img2, refs, wrote>>
     ELSE /\ \E g \in OobVals :
               /\ img' = [img EXCEPT ![ImgRow(row)] = RefLine(img, row, col, motion, g)]
               /\ img2' = [img2 EXCEPT ![ImgRow(row)] = RefLine(img2, row, col, motion, g)]
          /\ refs' = RefReads(row, col, motion)
          /\ wrote' = col..(col + 15)
          /\ pc' = "widths" /\ err' = err
  /\ rd' = <<>>
  /\ UNCHANGED <<profile, bits, bitDepth, width, height, optflags, initVal,
                 dim, flip, line_offset, pumpBase, bitsRead, row, col,
                 motion, scale, diffBitsMode, diffBits, flags>>

\* lines 248-263: the width for one flag, from the context value ctx0 and
\* the 4-bit escape e
WidthOf(flag, ctx0, e) ==
  CASE flag = 0 -> ctx0
    [] flag = 1 -> Add32(ctx0, 1)
    [] flag = 2 -> Sub32(ctx0, 1)
    [] flag = 3 -> e

\* lines 264-265: the context pair of a colour after width d
ShiftModeKeepsOldest(pair, d) == [k \in 0..1 |-> IF k = 0 THEN pair[0] ELSE d]
ShiftMode(pair, d) == [k \in 0..1 |-> IF k = 0 THEN pair[1] ELSE d]

\* lines 244-268: the loop over the four quarters, from quarter i on; n is
\* the number of quarters processed, ok whether none had too many bits
RECURSIVE WidthLoop(_, _, _, _, _, _, _)
WidthLoop(i, dbm, db, f, e, r, depth) ==
  IF i = 4 THEN [dbm |-> dbm, db |-> db, ok |-> TRUE, n |-> 4]
  ELSE LET c == colornum(r, i)
           d == WidthOf(f[i], dbm[c][0], e[i])
           dbm1 == [dbm EXCEPT ![c] = ShiftMode(dbm[c], d)]
           db1 == [db EXCEPT ![i] = d]
       IN IF TooManyBits(d, depth)
          THEN [dbm |-> dbm1, db |-> db1, ok |-> FALSE, n |-> i + 1]
          ELSE WidthLoop(i + 1, dbm1, db1, f, e, r, depth)

\* the escapes a flag vector reads: one per flag 3 (0 stands for "not read")
EscOne(f, p, i) == IF f[i] = 3 THEN EscIn(p) ELSE {0}
EscapesFor(f, p) ==
  {[i \in 0..3 |-> CASE i = 0 -> a [] i = 1 -> b [] i = 2 -> c [] i = 3 -> d] :
     a \in EscOne(f, p, 0), b \in EscOne(f, p, 1),
     c \in EscOne(f, p, 2), d \in EscOne(f, p, 3)}

\* the reads of lines 243 and 259, in order, when n quarters were processed
RECURSIVE EscReads(_, _, _, _)
EscReads(f, e, n, i) ==
  IF i >= n THEN <<>>
  ELSE (IF f[i] = 3 THEN << <<4, e[i]>> >> ELSE <<>>) \o EscReads(f, e, n, i + 1)
FlagReads(f) == [k \in 1..4 |-> <<2, f[k - 1]>>]

RECURSIVE SumBits(_)
SumBits(s) == IF s = <<>> THEN 0 ELSE Head(s)[1] + SumBits(Tail(s))

\* lines 239-269
Widths ==
  /\ pc = "widths"
  /\ \E hb \in (IF HasOpt(optflags, OPT_SKIP) THEN {0} ELSE WidthBitIn(profile)) :
       LET hbRead == IF HasOpt(optflags, OPT_SKIP) THEN <<>> ELSE << <<1, hb>> >>
       IN IF HasOpt(optflags, OPT_SKIP) \/ hb = 0
          THEN \E f \in FlagsIn(profile) : \E e \in EscapesFor(f, profile) :
                 LET w == WidthLoop(0, diffBitsMode, NewDiffBits(diffBits), f, e,
                                    row, bitDepth)
                 IN /\ flags' = f
                    /\ diffBitsMode' = w.dbm
                    /\ diffBits' = w.db
                    /\ rd' = hbRead \o FlagReads(f) \o EscReads(f, e, w.n, 0)
                    /\ IF w.ok THEN pc' = "resid" /\ err' = err
                       ELSE pc' = "error" /\ err' = "bits"
          ELSE /\ diffBits' = NewDiffBits(diffBits)
               /\ rd' = hbRead
               /\ pc' = "resid"
               /\ UNCHANGED <<flags, diffBitsMode, err>>
  /\ bitsRead' = bitsRead + SumBits(rd')
  /\ UNCHANGED <<profile, bits, bitDepth, width, height, optflags, initVal,
                 dim, img, img2, flip, line_offset, pumpBase, row, col,
                 motion, scale, refs, wrote>>

\* the raw bits of a residual of len bits under residual pattern pat
RawOf(pat, len) ==
  CASE pat = "zero" -> 0
    [] pat = "ones" -> Pow2(len) - 1
    [] pat = "max" -> IF len = 0 THEN 0 ELSE Pow2(len - 1) - 1

\* raw with bit b flipped
FlipOf(raw, b) ==
  IF (raw \div Pow2(b)) % 2 = 1 THEN raw - Pow2(b) ELSE raw + Pow2(b)

\* line 287
ScaleDiff(diff, s) == diff * (s * 2 + 1) + s

\* lines 272-289: residuals i..15 applied to the block at column c of line;
\* raw[i] is the value read for residual i
RECURSIVE ApplyResiduals(_, _, _, _, _, _, _, _)
ApplyResiduals(line, r, c, db, raw, s, nb, i) ==
  IF i = 16 THEN line
  ELSE LET len == db[i \div 4]
           diff == ScaleDiff(SignExtend(raw[i], len), s)
           pos == c + WritePos(r, i)
       IN ApplyResiduals([line EXCEPT ![pos] = clampBits(line[pos] + diff, nb)],
                         r, c, db, raw, s, nb, i + 1)

\* lines 271-293
Residuals ==
  /\ pc = "resid"
  /\ \E pat \in ResidIn(profile) :
       LET raw == [i \in 0..15 |-> RawOf(pat, diffBits[i \div 4])]
       IN /\ img' = [img EXCEPT ![ImgRow(row)] =
                       ApplyResiduals(img[ImgRow(row)], row, col, diffBits, raw,
                                      scale, bits, 0)]
          /\ rd' = [k \in 1..16 |-> <<diffBits[(k - 1) \div 4], raw[k - 1]>>]
          /\ \E fl \in {<<>>} \cup (IF flip.armed THEN FlipIdx \X FlipBit ELSE {}) :
               IF fl = <<>> \/ (fl # <<>> /\ fl[2] >= diffBits[fl[1] \div 4])
               THEN /\ img2' = [img2 EXCEPT ![ImgRow(row)] =
                                  ApplyResiduals(img2[ImgRow(row)], row, col, diffBits,
                                                 raw, scale, bits, 0)]
                    /\ flip' = flip
               ELSE /\ img2' = [img2 EXCEPT ![ImgRow(row)] =
                                  ApplyResiduals(img2[ImgRow(row)], row, col, diffBits,
                                                 [raw EXCEPT ![fl[1]] = FlipOf(@, fl[2])],
                                                 scale, bits, 0)]
                    /\ flip' = [armed |-> FALSE, at |-> <<row, col, fl[1], fl[2]>>]
  /\ bitsRead' = bitsRead + SumBits(rd')
  /\ wrote' = {col + WritePos(row, i) : i \in 0..15}
  /\ col' = col + 16
  /\ pc' = IF col + 16 < width THEN "scale" ELSE "rowend"
  /\ UNCHANGED <<profile, err, bits, bitDepth, width, height, optflags,
                 initVal, dim, line_offset, pumpBase, row, motion,
                 scale, diffBitsMode, diffBits, flags, refs>>

\* line 295 and the row loop's increment and test
RowEnd ==
  /\ pc = "rowend"
  /\ line_offset' = Add32(line_offset, getBufferPosition(bitsRead))
  /\ row' = row + 1
  /\ pc' = IF row + 1 < height THEN "row" ELSE "done"
  /\ rd' = <<>>
  /\ UNCHANGED <<profile, err, bits, bitDepth, width, height, optflags,
                 initVal, dim, img, img2, flip, pumpBase, bitsRead, col, motion,
                 scale, diffBitsMode, diffBits, flags, refs, wrote>>

Next ==
  \/ Header
  \/ CheckDims
  \/ RowStart
  \/ Scale
  \/ Motion
  \/ Reference
  \/ Widths
  \/ Residuals
  \/ RowEnd

Spec == Init /\ [][Next]_vars

\* two decodes of one stream with optflags = 0 that differ in one residual bit
InitPair ==
  /\ profile = "pair"
  /\ flip = [armed |-> TRUE, at |-> <<>>]
  /\ pc = "header" /\ err = "none"
  /\ bits = 0 /\ bitDepth = 0 /\ width = 0 /\ height = 0
  /\ optflags = 0 /\ initVal = 0
  /\ dim = <<0, 0>> /\ img = <<>> /\ img2 = <<>>
  /\ line_offset = 0 /\ pumpBase = 0 /\ bitsRead = 0
  /\ row = 0 /\ col = 0 /\ motion = 0 /\ scale = 0
  /\ diffBitsMode = [c \in 0..2 |-> [k \in 0..1 |-> 0]]
  /\ diffBits = [i \in 0..3 |-> 0]
  /\ flags = [i \in 0..3 |-> 0]
  /\ rd = <<>> /\ refs = {} /\ wrote = {}

SpecPair == InitPair /\ [][Next]_vars

----------------------------------------------------------------------------
(* Properties *)

Decoding == pc \notin {"header", "dims"}
Flipped == flip.at # <<>>

\* C1: when decodeCompressed3 has returned without error, every pixel of
\* the width x height raster lies in [0, 2^bits - 1].
C1_PixelsInRange ==
  pc = "done" =>
    \A r \in 0..(height - 1) : \A c \in 0..(width - 1) :
      img[r][c] >= 0 /\ img[r][c] <= Pow2(bits) - 1

\* a finished 12-bit decode seeded with a 14-bit initVal whose last block
\* was predicted by averaging two pixels of the rows above, holding both a
\* pixel clamped to the top of the range and one clamped to the bottom
C1_Witness ==
  /\ pc = "done" /\ bits = 12 /\ initVal = 16383 /\ row = 3
  /\ motion \in {2, 4}
  /\ \E c \in 0..(width - 1) : img[2][c] = 4095
  /\ \E c \in 0..(width - 1) : img[2][c] = 0

\* C2: every pixel of the rows above that a block dereferences has a column
\* index in [0, width) and lies in row r-1 or r-2, and every write of the
\* block has a column index in [0, width).
C2_ReferencesInBounds ==
  pc \notin {"row", "done"} =>
    /\ \A p \in refs : p[2] >= 0 /\ p[2] < width /\ p[1] \in {row - 1, row - 2}
    /\ \A c \in wrote : c >= 0 /\ c < width

\* C5: on rows 0 and 1 a motion code other than 7 ends the decode with the
\* motion error, and no pixel of a row above is dereferenced.
C5_StartRowsMotion7 ==
  (Decoding /\ pc # "row" /\ err # "dimensions" /\ row \in {0, 1}) =>
     /\ motion # 7 => (pc = "error" /\ err = "motion")
     /\ refs = {}

\* the decode of row 1 ended because the one-bit motion encoding gave 3
C5_Witness ==
  /\ pc = "error" /\ err = "motion" /\ row = 1 /\ motion = 3
  /\ HasOpt(optflags, OPT_MV)

\* C8: a header with width 0, height 0, width not a multiple of 16,
\* width > 6496 or height > 4336 ends the decode with the dimension error
\* before the raster is dimensioned or anything is decoded; every other
\* header passes the check.
C8_HeaderValidation ==
  Decoding =>
    IF width = 0 \/ height = 0 \/ width % 16 # 0 \/ width > 6496 \/ height > 4336
    THEN /\ pc = "error" /\ err = "dimensions"
         /\ dim = <<0, 0>> /\ img = <<>>
         /\ row = 0 /\ col = 0 /\ wrote = {} /\ bitsRead = HeaderBits
    ELSE /\ err # "dimensions"
         /\ dim = <<width, height>>

\* a header one block wider than the cap was refused
C8_Witness ==
  /\ pc = "error" /\ err = "dimensions"
  /\ width = 6512 /\ height = 4336

Zeros4 == [i \in 0..3 |-> 0]
\* the step of the width stage that read header bit 1 (OPT_SKIP unset)
ReuseStep == pc = "widths" /\ rd' = << <<1, 1>> >>
\* the step of the width stage that read the four flags
FlagStep == pc = "widths" /\ Len(rd') >= 4

\* C3 (as stated): a block whose residual-width header bit is 1 reads no
\* flags, leaves diffBitsMode unshifted and keeps the four diffBits of the
\* previous block of the row.
C3_ReuseKeepsPrevious ==
  [][ReuseStep =>
       /\ diffBits' = diffBits
       /\ diffBitsMode' = diffBitsMode
       /\ flags' = flags
       /\ bitsRead' = bitsRead + 1]_vars

\* C3 (amended): a block whose residual-width header bit is 1 reads no
\* flags, leaves diffBitsMode unshifted and has all four diffBits 0, so its
\* 16 residuals take no bits from the stream.
C3_ReuseZeroWidths ==
  [][/\ ReuseStep =>
          /\ diffBits' = Zeros4
          /\ diffBitsMode' = diffBitsMode
          /\ flags' = flags
          /\ bitsRead' = bitsRead + 1
     /\ (pc = "resid" /\ rd = << <<1, 1>> >>) =>
          /\ bitsRead' = bitsRead
          /\ \A k \in 1..16 : rd'[k] = <<0, 0>>]_vars

\* the second block of a row took header bit 1 after a first block that
\* read flags and decoded with widths 8, 7, 7, 8
C3_Witness ==
  /\ pc = "resid" /\ rd = << <<1, 1>> >> /\ col = 16 /\ row = 0
  /\ flags = [i \in 0..3 |-> IF i \in {0, 3} THEN 1 ELSE 0]
  /\ diffBitsMode[2] = [k \in 0..1 |-> 8 - k]
  /\ diffBits = Zeros4

\* C4: every width the residuals are read with is at most bitDepth + 1; a
\* derived width above that bound, 0 - 1 = 0xFFFFFFFF included, ends the
\* decode with the width error before a residual is read with it.
C4_WidthsBounded ==
  /\ pc = "resid" => \A i \in 0..3 : diffBits[i] \in 0..(bitDepth + 1)
  /\ (\E i \in 0..3 : diffBits[i] \notin 0..(bitDepth + 1)) =>
        (pc = "error" /\ err = "bits")
  /\ (pc \in {"scale", "rowend"} /\ Len(rd) = 16) =>
        \A k \in 1..16 : rd[k][1] \in 0..(bitDepth + 1)

\* the decode ended on a width of 0xFFFFFFFF, derived from context 0 by
\* flag 2
C4_Witness ==
  /\ pc = "error" /\ err = "bits"
  /\ \E i \in 0..3 : diffBits[i] = -1 /\ flags[i] = 2

\* bytes that hold n bits, a partly used byte counted
BytesUsed(n) == (n + 7) \div 8
\* the smallest multiple of 16 that is not less than x
NextBoundary(x) == ((x + 15) \div 16) * 16

\* C6: the pump of every row is constructed at a multiple of 16 that is the
\* smallest one not less than the byte position where the pump before it
\* (the header's, or the previous row's) stopped reading, a partly consumed
\* byte counted as consumed; so a row never starts inside bytes an earlier
\* row consumed.
C6_RowStartsPastConsumed ==
  [][pc = "row" =>
       /\ pumpBase' % 16 = 0
       /\ pumpBase' = NextBoundary(pumpBase + BytesUsed(bitsRead))
       /\ pumpBase' * 8 >= pumpBase * 8 + bitsRead]_vars

\* C9: scale is 0 at the start of a row and changes only at a block whose
\* col is a multiple of 64 with OPT_QP unset: codes 0, 1, 2 add 0, -2, +2
\* and code 3 replaces it by the 12-bit value read next; with OPT_QP set no
\* scale bits are read, scale is 0 throughout and a residual is applied
\* unscaled.
C9_ScaleUpdates ==
  [][/\ pc = "row" => scale' = 0
     /\ pc = "scale" =>
          IF col % 64 = 0 /\ (optflags \div 4) % 2 = 0
          THEN /\ Len(rd') >= 1 /\ rd'[1][1] = 2
               /\ rd'[1][2] = 0 => (scale' = scale /\ Len(rd') = 1)
               /\ rd'[1][2] = 1 => (scale' = scale - 2 /\ Len(rd') = 1)
               /\ rd'[1][2] = 2 => (scale' = scale + 2 /\ Len(rd') = 1)
               /\ rd'[1][2] = 3 =>
                    (Len(rd') = 2 /\ rd'[2][1] = 12 /\ scale' = rd'[2][2])
          ELSE scale' = scale /\ rd' = <<>> /\ bitsRead' = bitsRead
     /\ (Decoding /\ pc \notin {"row", "scale"}) => scale' = scale
     /\ (Decoding /\ (optflags \div 4) % 2 = 1) => scale' = 0
     /\ (pc = "resid" /\ (optflags \div 4) % 2 = 1) =>
          \A i \in 0..15 :
            img'[row][col + WritePos(row, i)] =
              clampBits(img[row][col + WritePos(row, i)]
                        + SignExtend(rd'[i + 1][2], rd'[i + 1][1]), bits)]_vars

\* the fifth block of a row read escape 0 after four blocks decoded with
\* scale 7 (each added 7 to the seed 1000)
C9_Witness ==
  /\ pc = "motion" /\ col = 64
  /\ rd = << <<2, 3>>, <<12, 0>> >>
  /\ scale = 0
  /\ img[row][63] = 1028

\* the colours of quarters 0, 1 and of quarters 2, 3 of a block of row r
ColourA(r) == IF r % 2 = 1 THEN 0 ELSE 2
ColourB(r) == IF r % 2 = 1 THEN 1 ELSE 0
\* the context value quarter i derives its width from, in terms of the
\* contexts before the block
ContextOf(i) ==
  CASE i = 0 -> diffBitsMode[ColourA(row)][0]
    [] i = 1 -> diffBitsMode[ColourA(row)][1]
    [] i = 2 -> diffBitsMode[ColourB(row)][0]
    [] i = 3 -> diffBitsMode[ColourB(row)][1]
\* quarter i got the width its flag asks for
QuarterOk(i) ==
  CASE flags'[i] = 0 -> diffBits'[i] = ContextOf(i)
    [] flags'[i] = 1 -> diffBits'[i] = ContextOf(i) + 1
    [] flags'[i] = 2 -> diffBits'[i] = ContextOf(i) - 1
    [] flags'[i] = 3 -> diffBits'[i] \in 0..15 /\ <<4, diffBits'[i]>> \in
                          {rd'[k] : k \in 5..Len(rd')}

\* C10: on the width-flag path quarter i takes diffBitsMode[colornum][0]
\* plus 0, +1, -1 for flags 0, 1, 2 or a fresh 4-bit value for flag 3, and
\* the context then shifts as a FIFO of depth 2; the contexts start every
\* row at 7 (rows 0, 1) or 4 (other rows); flags 0,1,2,0 in block 0 of row 2
\* give widths 4,5,3,4.
C10_WidthContext ==
  [][/\ pc = "row" =>
          \A c \in 0..2 : \A k \in 0..1 :
            diffBitsMode'[c][k] = IF row \in {0, 1} THEN 7 ELSE 4
     /\ (FlagStep /\ pc' = "resid") =>
          /\ \A i \in 0..3 : QuarterOk(i)
          /\ diffBitsMode'[ColourA(row)] = [k \in 0..1 |-> diffBits'[k]]
          /\ diffBitsMode'[ColourB(row)] = [k \in 0..1 |-> diffBits'[k + 2]]
          /\ \A c \in 0..2 : c \notin {ColourA(row), ColourB(row)} =>
                diffBitsMode'[c] = diffBitsMode[c]
     /\ (FlagStep /\ pc' = "error") =>
          \E n \in 0..3 :
            /\ \A i \in 0..n : QuarterOk(i)
            /\ \A i \in 0..(n - 1) : diffBits'[i] \in 0..(bitDepth + 1)
            /\ diffBits'[n] \notin 0..(bitDepth + 1)
     /\ (FlagStep /\ pc' = "resid" /\ row = 2 /\ col = 0
         /\ flags' = [i \in 0..3 |-> IF i = 3 THEN 0 ELSE i]) =>
          diffBits' = [i \in 0..3 |-> CASE i = 0 -> 4 [] i = 1 -> 5
                                        [] i = 2 -> 3 [] i = 3 -> 4]]_vars

\* block 0 of row 2 read flags 0,1,2,0: widths 4,5,3,4, and the two contexts
\* used hold the last two widths of their colour
C10_Witness ==
  /\ pc = "resid" /\ row = 2 /\ col = 0
  /\ flags = [i \in 0..3 |-> IF i = 3 THEN 0 ELSE i]
  /\ diffBits = [i \in 0..3 |-> CASE i = 0 -> 4 [] i = 1 -> 5
                                   [] i = 2 -> 3 [] i = 3 -> 4]
  /\ diffBitsMode[2] = [k \in 0..1 |-> 4 + k]
  /\ diffBitsMode[0] = [k \in 0..1 |-> 3 + k]

\* the pixels on which the two decodes disagree
Differing ==
  IF img = <<>> THEN {}
  ELSE {p \in (0..(height - 1)) \X (0..(width - 1)) : img[p[1]][p[2]] # img2[p[1]][p[2]]}

\* C7 (as stated): with optflags = 0, two decodes whose streams differ in
\* one residual bit produce rasters that differ only in pixels of the block
\* that owns the bit.
C7_OneBlockDiffers ==
  pc = "done" =>
  \A p \in Differing :
    /\ Flipped
    /\ p[1] = flip.at[1]
    /\ p[2] \in flip.at[2]..(flip.at[2] + 15)

\* C7 (amended): with optflags = 0, two decodes whose streams differ in one
\* residual bit agree on every pixel of the blocks decoded before the block
\* that owns the bit (the rows above it and the blocks to its left in its
\* row); the owning block and the blocks decoded after it may differ.
C7_EarlierBlocksAgree ==
  \A p \in Differing :
    /\ Flipped
    /\ \/ p[1] > flip.at[1]
       \/ p[1] = flip.at[1] /\ p[2] >= flip.at[2]

\* both decodes finished; a bit of a residual of block 0 of row 0 was
\* flipped, and the pixels differ in that block and in the block after it
C7_Witness ==
  /\ pc = "done" /\ optflags = 0 /\ width = 32
  /\ Flipped /\ flip.at[1] = 0 /\ flip.at[2] = 0
  /\ \E p \in Differing : p[1] = 0 /\ p[2] < 16
  /\ \E p \in Differing : p[1] = 0 /\ p[2] >= 16

====
